---- MODULE Spec2Model ----
(***************************************************************************)
(* Model of the transactional ledger of src/code/trans_db.cpp:             *)
(* transaction_log (condensed per-account net change of a transaction)     *)
(* and transaction_db (balances, the buffer of optimistically applied      *)
(* logs, the committed ids, and the greedy recursive settle()).            *)
(*                                                                         *)
(* Balances, amounts and deltas are C++ int; every value the model         *)
(* reaches stays far inside the 32-bit range, so the arithmetic is exact.  *)
(***************************************************************************)
EXTENDS Integers, Sequences, FiniteSets, TLC

VARIABLES
    accounts,              \* transaction_db::accounts: account id -> balance
    temp_log,              \* transaction_db::temp_log: transaction id -> log
    applied_transactions,  \* transaction_db::applied_transactions
    current_transaction,   \* transaction_db::current_transaction
    pc,                    \* "idle" between calls, "settle" inside settle(),
                           \* "segv"/"abort" once the process has died
    input,                 \* the test input: initial balances and the
                           \* transfers the caller composes transactions from
    pushed,                \* history: every push_transaction call, in order:
                           \* the id handed to the log, whether it was
                           \* accepted, its net deltas, and the position of
                           \* its first transfer naming an unknown account
    call,                  \* history: the settle() call in progress or last
                           \* returned; NoCall after construction or a push
    last_empty_balances,   \* history: the balances in the latest state in
                           \* which temp_log was empty
    rollbacks              \* history: calls of the public rollback() made
                           \* from outside the class; the program makes none

vars == <<accounts, temp_log, applied_transactions, current_transaction,
          pc, input, pushed, call, last_empty_balances, rollbacks>>

--------------------------------------------------------------------------
(* Bounds of the exploration. *)

MaxPushes == 2       \* push_transaction calls per behaviour

MaxTransfers == 2    \* transfers per transaction

--------------------------------------------------------------------------
(* Data. *)

account_balance(id, bal) == [account_id |-> id, balance |-> bal]

transfer(f, t, a) == [from |-> f, to |-> t, amount |-> a]

EmptyMap == <<>>

NoCall == [active |-> FALSE]

(* The inputs main() reads: an initial balance list and transactions.     *)
(* Each test input names the balance list handed to create_database and   *)
(* the transfers its transactions are made of.                            *)
Inputs ==
    { \* Scenario A / B accounts
      [initial_balances |-> <<account_balance(1, 10), account_balance(2, 5)>>,
       transfers |-> {transfer(1, 2, 3), transfer(2, 1, 10), transfer(1, 3, 3)}],
      [initial_balances |-> <<account_balance(1, 5), account_balance(2, 5)>>,
       transfers |-> {transfer(1, 2, 10), transfer(2, 1, 3), transfer(1, 2, -10)}],
      \* Scenario C accounts
      [initial_balances |-> <<account_balance(1, 10), account_balance(2, 0),
                              account_balance(3, 0)>>,
       transfers |-> {transfer(1, 2, 5), transfer(1, 3, 20),
                      transfer(3, 2, 5), transfer(1, 2, -5)}],
      \* Scenario D accounts: account 2 does not exist
      [initial_balances |-> <<account_balance(1, 10)>>,
       transfers |-> {transfer(1, 2, 5), transfer(1, 1, 0), transfer(1, 1, 5)}],
      \* a negative initial balance, amounts that collide with account ids
      [initial_balances |-> <<account_balance(1, -1), account_balance(2, 2)>>,
       transfers |-> {transfer(2, 1, 1), transfer(1, 2, 2), transfer(2, 1, 2)}],
      \* a duplicated account id in the initial list
      [initial_balances |-> <<account_balance(1, 10), account_balance(1, 0),
                              account_balance(2, 5)>>,
       transfers |-> {transfer(1, 2, 10), transfer(2, 1, 3)}] }

(* Every transaction of at most MaxTransfers transfers over a transfer set. *)
Transactions(xfers) == UNION {[1..n -> xfers] : n \in 0..MaxTransfers}

(* What a transaction means, read off its transfers: the accounts it      *)
(* references, and for each the amounts received minus the amounts sent.  *)
Referenced(t) == {t[i].from : i \in DOMAIN t} \cup {t[i].to : i \in DOMAIN t}

RECURSIVE Received(_, _)
Received(t, a) ==
    IF t = <<>> THEN 0
    ELSE (IF Head(t).to = a THEN Head(t).amount ELSE 0)
         - (IF Head(t).from = a THEN Head(t).amount ELSE 0)
         + Received(Tail(t), a)

NetDelta(t) == [a \in Referenced(t) |-> Received(t, a)]

(* Position of the first transfer naming an unknown account, 0 if none. *)
FirstUnknown(t, ids) ==
    LET bad == {i \in DOMAIN t : t[i].from \notin ids \/ t[i].to \notin ids}
    IN  IF bad = {} THEN 0 ELSE CHOOSE i \in bad : \A j \in bad : i <= j

--------------------------------------------------------------------------
(* transaction_log *)

add_to_log_negated_to(log, xfer) ==
    LET l1 == IF xfer.from \in DOMAIN log
              THEN [log EXCEPT ![xfer.from] = @ - xfer.amount]
              ELSE log @@ (xfer.from :> (0 - xfer.amount))
    IN  IF xfer.to \in DOMAIN l1
        THEN [l1 EXCEPT ![xfer.to] = @ - xfer.amount]
        ELSE l1 @@ (xfer.to :> (0 - xfer.amount))

add_to_log_last_wins(log, xfer) ==
    LET l1 == IF xfer.from \in DOMAIN log
              THEN [log EXCEPT ![xfer.from] = 0 - xfer.amount]
              ELSE log @@ (xfer.from :> (0 - xfer.amount))
    IN  IF xfer.to \in DOMAIN l1
        THEN [l1 EXCEPT ![xfer.to] = xfer.amount]
        ELSE l1 @@ (xfer.to :> xfer.amount)

add_to_log(log, xfer) ==
    LET l1 == IF xfer.from \in DOMAIN log
              THEN [log EXCEPT ![xfer.from] = @ - xfer.amount]
              ELSE log @@ (xfer.from :> (0 - xfer.amount))
    IN  IF xfer.to \in DOMAIN l1
        THEN [l1 EXCEPT ![xfer.to] = @ + xfer.amount]
        ELSE l1 @@ (xfer.to :> xfer.amount)

(* The validate lambda of push_transaction, bound to the account map. *)
validate_from_only(accs, xfer) == xfer.from \in DOMAIN accs

validate(accs, xfer) == xfer.to \in DOMAIN accs /\ xfer.from \in DOMAIN accs

(* build_log: fold the transfers in order; the first invalid one throws. *)
RECURSIVE build_log(_, _, _)
build_log(log, t, accs) ==
    IF t = <<>> THEN [thrown |-> FALSE, log |-> log]
    ELSE IF ~validate(accs, Head(t)) THEN [thrown |-> TRUE, log |-> EmptyMap]
    ELSE build_log(add_to_log(log, Head(t)), Tail(t), accs)

(* The constructor: an empty log, then build_log. *)
transaction_log(t, accs) == build_log(EmptyMap, t, accs)

net_change(log, account_id) ==
    IF account_id \in DOMAIN log THEN log[account_id] ELSE 0

--------------------------------------------------------------------------
(* transaction_db *)

(* The constructor inserts the balances in list order into the            *)
(* unordered_map; insert() keeps an element whose key is already present. *)
RECURSIVE insert_all_overwrites(_, _)
insert_all_overwrites(accs, balances) ==
    IF balances = <<>> THEN accs
    ELSE LET b == Head(balances)
         IN  insert_all_overwrites(
                 [a \in DOMAIN accs \cup {b.account_id} |->
                     IF a = b.account_id THEN b.balance ELSE accs[a]],
                 Tail(balances))

RECURSIVE insert_all(_, _)
insert_all(accs, balances) ==
    IF balances = <<>> THEN accs
    ELSE LET b == Head(balances)
         IN  insert_all(IF b.account_id \in DOMAIN accs THEN accs
                        ELSE accs @@ (b.account_id :> b.balance),
                        Tail(balances))

transaction_db(initial_balances) == insert_all(EmptyMap, initial_balances)

(* accounts[id].balance += delta for every entry; operator[] creates a    *)
(* zero balance for an absent id.                                          *)
apply_transaction_assigns(accs, log) ==
    [a \in DOMAIN accs \cup DOMAIN log |->
        IF a \in DOMAIN log THEN log[a] ELSE accs[a]]

apply_transaction(accs, log) ==
    [a \in DOMAIN accs \cup DOMAIN log |->
        (IF a \in DOMAIN accs THEN accs[a] ELSE 0)
        + (IF a \in DOMAIN log THEN log[a] ELSE 0)]

rollback_adds(accs, log) ==
    [a \in DOMAIN accs \cup DOMAIN log |->
        (IF a \in DOMAIN accs THEN accs[a] ELSE 0)
        + (IF a \in DOMAIN log THEN log[a] ELSE 0)]

rollback(accs, log) ==
    [a \in DOMAIN accs \cup DOMAIN log |->
        (IF a \in DOMAIN accs THEN accs[a] ELSE 0)
        - (IF a \in DOMAIN log THEN log[a] ELSE 0)]

(* get_invalid_accounts(): accounts with a negative balance. *)
get_invalid_accounts_by_id(accs) ==
    Cardinality({a \in DOMAIN accs : a < 0})

get_invalid_accounts_nonpositive(accs) ==
    Cardinality({a \in DOMAIN accs : accs[a] <= 0})

get_invalid_accounts(accs) ==
    Cardinality({a \in DOMAIN accs : accs[a] < 0})

(* get_invalid_accounts(t): for every entry x of the log the code         *)
(* subtracts t.net_change(x.second.balance), the net change looked up     *)
(* with the entry's delta as the key.                                      *)
get_invalid_accounts_log(accs, log) ==
    Cardinality({a \in DOMAIN log : accs[a] - net_change(log, log[a]) < 0})

(* sia: one (score, id) pair per pending log; std::sort orders pairs       *)
(* lexicographically and settle() takes the front.                         *)
sia(accs, logs) ==
    {<<get_invalid_accounts_log(accs, logs[id]), id>> : id \in DOMAIN logs}

sorted_front_unsorted(pairs) ==
    CHOOSE p \in pairs : \A q \in pairs : p[2] <= q[2]

sorted_front(pairs) ==
    CHOOSE p \in pairs :
        \A q \in pairs : p[1] < q[1] \/ (p[1] = q[1] /\ p[2] <= q[2])

(* map::erase of one key. *)
erase_nothing(logs, id) == logs

erase(logs, id) == [k \in DOMAIN logs \ {id} |-> logs[k]]

(* get_balances(): the stored account_balance of every key.  The         *)
(* constructor stores each account under its own id; an account that      *)
(* operator[] created would be value-initialised, with account_id 0.      *)
get_balances ==
    [k \in DOMAIN accounts |->
        account_balance(
            IF k \in DOMAIN transaction_db(input.initial_balances) THEN k ELSE 0,
            accounts[k])]

(* get_applied_transactions(): the applied set, in increasing order. *)
get_applied_transactions == applied_transactions

(* History only: remember the balances whenever a step leaves temp_log   *)
(* empty.                                                                  *)
note_last_empty ==
    last_empty_balances' =
        IF DOMAIN temp_log' = {} THEN accounts' ELSE last_empty_balances

--------------------------------------------------------------------------
(* Initial state: the database as create_database returns it. *)

Init ==
    /\ input \in Inputs
    /\ accounts = transaction_db(input.initial_balances)
    /\ temp_log = EmptyMap
    /\ applied_transactions = {}
    /\ current_transaction = 0
    /\ pc = "idle"
    /\ pushed = <<>>
    /\ call = NoCall
    /\ last_empty_balances = accounts
    /\ rollbacks = 0

(* push_transaction(t) *)
push_transaction_always_increments(t) ==
    /\ pc = "idle"
    /\ Len(pushed) < MaxPushes
    /\ LET built == transaction_log(t, accounts)
       IN  /\ pushed' = Append(pushed, [trans_id |-> current_transaction,
                                        accepted |-> ~built.thrown,
                                        net |-> IF built.thrown THEN EmptyMap
                                                ELSE NetDelta(t),
                                        unknown_at |->
                                            FirstUnknown(t, DOMAIN accounts)])
           /\ current_transaction' = current_transaction + 1
           /\ IF built.thrown
              THEN UNCHANGED <<accounts, temp_log>>
              ELSE /\ accounts' = apply_transaction(accounts, built.log)
                   /\ temp_log' = temp_log @@ (current_transaction :> built.log)
    /\ call' = NoCall
    /\ UNCHANGED <<applied_transactions, pc, input>>
    /\ note_last_empty
    /\ UNCHANGED rollbacks

push_transaction_reuses_id(t) ==
    /\ pc = "idle"
    /\ Len(pushed) < MaxPushes
    /\ LET built == transaction_log(t, accounts)
       IN  /\ pushed' = Append(pushed, [trans_id |-> current_transaction,
                                        accepted |-> ~built.thrown,
                                        net |-> IF built.thrown THEN EmptyMap
                                                ELSE NetDelta(t),
                                        unknown_at |->
                                            FirstUnknown(t, DOMAIN accounts)])
           /\ IF built.thrown
              THEN UNCHANGED <<accounts, temp_log>>
              ELSE /\ accounts' = apply_transaction(accounts, built.log)
                   /\ temp_log' = temp_log @@ (current_transaction :> built.log)
    /\ call' = NoCall
    /\ UNCHANGED <<applied_transactions, current_transaction, pc, input>>
    /\ note_last_empty
    /\ UNCHANGED rollbacks

push_transaction(t) ==
    /\ pc = "idle"
    /\ Len(pushed) < MaxPushes
    /\ LET built == transaction_log(t, accounts)
       IN  /\ pushed' = Append(pushed, [trans_id |-> current_transaction,
                                        accepted |-> ~built.thrown,
                                        net |-> IF built.thrown THEN EmptyMap
                                                ELSE NetDelta(t),
                                        unknown_at |->
                                            FirstUnknown(t, DOMAIN accounts)])
           /\ IF built.thrown
              THEN UNCHANGED <<accounts, temp_log, current_transaction>>
              ELSE /\ accounts' = apply_transaction(accounts, built.log)
                   /\ temp_log' = temp_log @@ (current_transaction :> built.log)
                   /\ current_transaction' = current_transaction + 1
    /\ call' = NoCall
    /\ UNCHANGED <<applied_transactions, pc, input>>
    /\ note_last_empty
    /\ UNCHANGED rollbacks

(* The caller invokes settle(). *)
settle_enter ==
    /\ pc = "idle"
    /\ pc' = "settle"
    /\ call' = [active |-> TRUE,
                consecutive |-> call.active,
                P |-> Cardinality(DOMAIN temp_log),
                pending |-> DOMAIN temp_log,
                rolled |-> {},
                balances |-> accounts,
                applied |-> applied_transactions,
                counter |-> current_transaction]
    /\ UNCHANGED <<accounts, temp_log, applied_transactions,
                   current_transaction, input, pushed>>
    /\ note_last_empty
    /\ UNCHANGED rollbacks

(* settle(), step 1: no negative balance; commit the pending ids. *)
settle_commit_overwrites ==
    /\ pc = "settle"
    /\ get_invalid_accounts(accounts) = 0
    /\ applied_transactions' = DOMAIN temp_log
    /\ temp_log' = EmptyMap
    /\ pc' = "idle"
    /\ UNCHANGED <<accounts, current_transaction, input, pushed, call>>
    /\ note_last_empty
    /\ UNCHANGED rollbacks

settle_commit_keeps_pending ==
    /\ pc = "settle"
    /\ get_invalid_accounts(accounts) = 0
    /\ applied_transactions' = applied_transactions \cup DOMAIN temp_log
    /\ pc' = "idle"
    /\ UNCHANGED <<accounts, temp_log, current_transaction, input, pushed,
                   call>>
    /\ note_last_empty
    /\ UNCHANGED rollbacks

settle_commit ==
    /\ pc = "settle"
    /\ get_invalid_accounts(accounts) = 0
    /\ applied_transactions' = applied_transactions \cup DOMAIN temp_log
    /\ temp_log' = EmptyMap
    /\ pc' = "idle"
    /\ UNCHANGED <<accounts, current_transaction, input, pushed, call>>
    /\ note_last_empty
    /\ UNCHANGED rollbacks

(* settle(), steps 2-5: score, sort, roll back the front, erase, recurse. *)
settle_rollback ==
    /\ pc = "settle"
    /\ get_invalid_accounts(accounts) # 0
    /\ DOMAIN temp_log # {}
    /\ LET front == sorted_front(sia(accounts, temp_log))
       IN  /\ accounts' = rollback(accounts, temp_log[front[2]])
           /\ temp_log' = erase(temp_log, front[2])
           /\ call' = [call EXCEPT !.rolled = @ \cup {front[2]}]
    /\ UNCHANGED <<applied_transactions, current_transaction, pc, input,
                   pushed>>
    /\ note_last_empty
    /\ UNCHANGED rollbacks

(* settle() with a negative balance and nothing pending: sia is empty and *)
(* sia.front() is undefined behaviour.  The element pointer of a vector   *)
(* that never allocated is null, so the read faults (SIGSEGV), or a       *)
(* library built with assertions aborts (SIGABRT); either way the call    *)
(* does not return.                                                        *)
settle_front_of_empty ==
    /\ pc = "settle"
    /\ get_invalid_accounts(accounts) # 0
    /\ DOMAIN temp_log = {}
    /\ pc' \in {"segv", "abort"}
    /\ UNCHANGED <<accounts, temp_log, applied_transactions,
                   current_transaction, input, pushed, call>>
    /\ note_last_empty
    /\ UNCHANGED rollbacks

Next ==
    \/ \E t \in Transactions(input.transfers) : push_transaction(t)
    \/ settle_enter
    \/ settle_commit
    \/ settle_rollback
    \/ settle_front_of_empty

Spec == Init /\ [][Next]_vars

--------------------------------------------------------------------------
(* The class beyond the program.  rollback(const transaction_log&) is     *)
(* declared under public: and transaction_log has a public constructor    *)
(* taking the caller's validate function.  The program never uses either  *)
(* from outside the class (rollback's one call site is settle()), so Next *)
(* and Spec do not contain this step; SpecClient adds it, for a caller    *)
(* that links against the class directly.                                  *)

(* A log built outside the class with a validate function that accepts    *)
(* every transfer.                                                          *)
client_log(t) == transaction_log(t, [a \in Referenced(t) |-> 0]).log

(* rollback(tlog) called from outside: every entry's delta is subtracted  *)
(* from accounts[id]; operator[] creates the account when the id is       *)
(* absent; temp_log is not touched.                                        *)
client_rollback(t) ==
    /\ pc = "idle"
    /\ Len(pushed) + rollbacks < MaxPushes
    /\ accounts' = rollback(accounts, client_log(t))
    /\ rollbacks' = rollbacks + 1
    /\ call' = NoCall
    /\ UNCHANGED <<temp_log, applied_transactions, current_transaction, pc,
                   input, pushed>>
    /\ note_last_empty

NextClient ==
    \/ Next
    \/ \E t \in Transactions(input.transfers) : client_rollback(t)

SpecClient == Init /\ [][NextClient]_vars

--------------------------------------------------------------------------
(* Vocabulary of the properties. *)

InitialAccounts == transaction_db(input.initial_balances)

NonNegativeInitial ==
    \A i \in DOMAIN input.initial_balances :
        input.initial_balances[i].balance >= 0

(* settle() has returned and nothing was pushed since. *)
Returned == pc = "idle" /\ call.active

Crashed == pc \in {"segv", "abort"}

RECURSIVE SumOver(_, _)
SumOver(f, S) ==
    IF S = {} THEN 0
    ELSE LET a == CHOOSE x \in S : TRUE IN f[a] + SumOver(f, S \ {a})

SumBalances(accs) == SumOver(accs, DOMAIN accs)

(* Number of accepted pushes among the first n. *)
RECURSIVE Accepted(_)
Accepted(n) ==
    IF n = 0 THEN 0
    ELSE Accepted(n - 1) + (IF pushed[n].accepted THEN 1 ELSE 0)

(* Net delta on account a of the first n pushes whose id is in ids. *)
RECURSIVE NetOf(_, _, _)
NetOf(n, ids, a) ==
    IF n = 0 THEN 0
    ELSE NetOf(n - 1, ids, a)
         + (IF pushed[n].accepted /\ pushed[n].trans_id \in ids
            THEN net_change(pushed[n].net, a) ELSE 0)

PushRecord(id, t) ==
    [trans_id |-> id, accepted |-> TRUE, net |-> NetDelta(t), unknown_at |-> 0]

--------------------------------------------------------------------------
(* C1: with initial balances all >= 0, after settle() returns every       *)
(* balance is >= 0, whatever was pushed before.                            *)
C1_SettledBalancesNonNegative ==
    (NonNegativeInitial /\ Returned) =>
        \A a \in DOMAIN accounts : accounts[a] >= 0

(* A settle() that had to roll back returned, and a transaction survived. *)
C1_Witness ==
    /\ NonNegativeInitial /\ Returned
    /\ call.rolled # {}
    /\ call.pending \ call.rolled # {}

(* C2: a push naming an unknown account leaves every balance unchanged    *)
(* and the id of that transaction is never in applied afterwards.         *)
C2_RejectedPushIsInert ==
    [][ /\ (Len(pushed') > Len(pushed) /\ ~pushed'[Len(pushed')].accepted)
              => accounts' = accounts
        /\ \A i \in DOMAIN pushed' :
              ~pushed'[i].accepted
                  => pushed'[i].trans_id \notin applied_transactions' ]_vars

(* C3: after a sequence of push_transaction and settle() calls that ends  *)
(* in settle(), each balance is the initial balance plus the net deltas   *)
(* of exactly the transactions whose ids are applied.                      *)
C3_BalancesAreInitialPlusApplied ==
    Returned =>
        accounts = [a \in DOMAIN InitialAccounts |->
                       InitialAccounts[a]
                       + NetOf(Len(pushed), applied_transactions, a)]

(* Returned with a transaction rolled back and a balance moved by a      *)
(* survivor.                                                               *)
C3_Witness ==
    /\ Returned
    /\ call.rolled # {}
    /\ accounts # InitialAccounts
    /\ applied_transactions # {}

(* C4: Scenario C ends with applied = [0] and balances {1:5, 2:5, 3:0}.   *)
ScenarioC ==
    /\ input.initial_balances = <<account_balance(1, 10), account_balance(2, 0),
                                  account_balance(3, 0)>>
    /\ pushed = <<PushRecord(0, <<transfer(1, 2, 5)>>),
                  PushRecord(1, <<transfer(1, 3, 20)>>)>>
    /\ Returned /\ call.P = 2

C4_ScenarioC ==
    ScenarioC =>
        /\ applied_transactions = {0}
        /\ accounts = (1 :> 5) @@ (2 :> 5) @@ (3 :> 0)
        /\ call.rolled = {1}

(* C5: the applied ids are the 0-based positions, in the sequence of      *)
(* push_transaction calls, of the surviving transactions; Scenario D      *)
(* ends with applied = [1] and balances {1:10}.                           *)
ScenarioD ==
    /\ input.initial_balances = <<account_balance(1, 10)>>
    /\ Len(pushed) = 2
    /\ ~pushed[1].accepted /\ pushed[1].unknown_at = 1
    /\ pushed[2].accepted /\ pushed[2].net = NetDelta(<<transfer(1, 1, 0)>>)
    /\ Returned

C5_AppliedIdsArePushPositions ==
    Returned =>
        /\ \A id \in applied_transactions :
              id + 1 \in DOMAIN pushed /\ pushed[id + 1].accepted
        /\ ScenarioD =>
              applied_transactions = {1} /\ accounts = (1 :> 10)

(* C6: the counter starts at 0, grows by one per accepted push, and is    *)
(* left alone by a rejected push and by settle(): it always equals the    *)
(* number of accepted pushes, and the k-th accepted push got id k.        *)
C6_CounterCountsAcceptedPushes ==
    /\ current_transaction = Accepted(Len(pushed))
    /\ \A i \in DOMAIN pushed :
          pushed[i].accepted => pushed[i].trans_id = Accepted(i - 1)

(* An accepted push after a rejected one, seen after a settle(). *)
C6_Witness ==
    /\ call.active
    /\ \E i, j \in DOMAIN pushed :
          i < j /\ ~pushed[i].accepted /\ pushed[j].accepted

(* C7: settle() always returns, after at most P rollbacks, and each       *)
(* iteration that goes on removes exactly one pending log.                *)
C7_SettleReturnsWithinP ==
    call.active =>
        /\ ~Crashed
        /\ Cardinality(call.rolled) <= call.P
        /\ pc = "settle" =>
              Cardinality(DOMAIN temp_log) = call.P - Cardinality(call.rolled)

(* C8: when a balance is still negative with nothing left pending,        *)
(* settle() returns normally, pending empty, applied as at the call and   *)
(* every rolled-back push undone.                                          *)
C8_ExhaustedSettleReturns ==
    (call.active /\ pc # "settle" /\ get_invalid_accounts(accounts) # 0) =>
        /\ pc = "idle"
        /\ DOMAIN temp_log = {}
        /\ applied_transactions = call.applied
        /\ \A a \in DOMAIN accounts :
              accounts[a] = call.balances[a]
                            - NetOf(Len(pushed), call.rolled, a)

(* C9: a settle() called right after a settle() changes nothing: not the  *)
(* balances, not pending, not applied, not the id counter, and it returns.*)
C9_SecondSettleIsNoOp ==
    (call.active /\ call.consecutive) =>
        /\ pc \in {"settle", "idle"}
        /\ accounts = call.balances
        /\ applied_transactions = call.applied
        /\ DOMAIN temp_log = {} /\ call.pending = {}
        /\ current_transaction = call.counter

(* The second of two consecutive settle() calls returned, with a          *)
(* committed transaction on record.                                        *)
C9_Witness ==
    /\ Returned /\ call.consecutive
    /\ applied_transactions # {}
    /\ accounts # InitialAccounts

(* C10: the sum of all balances never changes: not by an accepted push,   *)
(* not by any rollback, so after settle() it is the initial sum.          *)
C10_SumConserved == SumBalances(accounts) = SumBalances(InitialAccounts)

(* Inside settle(): one log rolled back, another still pending and       *)
(* applied, a balance still negative.                                      *)
C10_Witness ==
    /\ pc = "settle" /\ call.rolled # {}
    /\ DOMAIN temp_log # {}
    /\ \E a \in DOMAIN accounts : accounts[a] < 0

(* C11: right after settle() returns pending is empty, and each id that   *)
(* was pending at the call is either applied (not rolled back) or rolled  *)
(* back and neither pending nor applied.                                   *)
C11_PendingResolvedAtReturn ==
    Returned =>
        /\ DOMAIN temp_log = {}
        /\ call.rolled \subseteq call.pending
        /\ \A id \in call.pending :
              IF id \in call.rolled
              THEN id \notin applied_transactions
              ELSE id \in applied_transactions

(* Two transactions were pending at the call; one was rolled back. *)
C11_Witness ==
    /\ Returned
    /\ Cardinality(call.pending) = 2
    /\ Cardinality(call.rolled) = 1

(* C12: with an account id repeated in the initial list, the ledger holds *)
(* one account of that id.  The claim gives it the balance of the last    *)
(* occurrence; the constructor keeps the first.                           *)
IdsOf(balances) == {balances[i].account_id : i \in DOMAIN balances}

FirstOf(balances, id) ==
    balances[CHOOSE i \in DOMAIN balances :
                /\ balances[i].account_id = id
                /\ \A j \in DOMAIN balances :
                      balances[j].account_id = id => i <= j].balance

LastOf(balances, id) ==
    balances[CHOOSE i \in DOMAIN balances :
                /\ balances[i].account_id = id
                /\ \A j \in DOMAIN balances :
                      balances[j].account_id = id => j <= i].balance

JustConstructed == pushed = <<>> /\ pc = "idle" /\ ~call.active

C12_LastOccurrenceWins ==
    JustConstructed =>
        /\ DOMAIN accounts = IdsOf(input.initial_balances)
        /\ \A id \in DOMAIN accounts :
              accounts[id] = LastOf(input.initial_balances, id)

C12_FirstOccurrenceWins ==
    JustConstructed =>
        /\ DOMAIN accounts = IdsOf(input.initial_balances)
        /\ \A id \in DOMAIN accounts :
              accounts[id] = FirstOf(input.initial_balances, id)

(* A ledger just built from a list that repeats an id with two balances. *)
C12_Witness ==
    /\ JustConstructed
    /\ \E i, j \in DOMAIN input.initial_balances :
          /\ i < j
          /\ input.initial_balances[i].account_id
                = input.initial_balances[j].account_id
          /\ input.initial_balances[i].balance
                # input.initial_balances[j].balance

(* C13: applied only grows, and only when settle() commits: it is empty   *)
(* until then, no push changes it, every id in it belongs to an accepted  *)
(* push that the settle() committing it did not roll back, and no two     *)
(* accepted pushes share an id.                                            *)
C13_AppliedMonotonic ==
    [][ /\ applied_transactions \subseteq applied_transactions'
        /\ applied_transactions' # applied_transactions
              => /\ pc = "settle" /\ pc' = "idle"
                 /\ applied_transactions' \ applied_transactions
                       \subseteq call.pending \ call.rolled
        /\ call'.active => applied_transactions' \cap call'.rolled = {}
        /\ \A id \in applied_transactions' :
              \E i \in DOMAIN pushed' :
                  pushed'[i].accepted /\ pushed'[i].trans_id = id
        /\ \A i, j \in DOMAIN pushed' :
              (pushed'[i].accepted /\ pushed'[j].accepted /\ i # j)
                  => pushed'[i].trans_id # pushed'[j].trans_id ]_vars

(* A second settle() added an id to an applied set that already had one. *)
C13_Witness ==
    /\ Returned
    /\ call.applied # {}
    /\ applied_transactions # call.applied

(* C14: a rejected push returns normally and changes neither balances,    *)
(* pending, applied nor the counter; a valid push after it is accepted    *)
(* with the id and the effect it would have had without the rejected one. *)
C14_RejectedPushChangesNothing ==
    [][ (Len(pushed') > Len(pushed)) =>
           LET this == pushed'[Len(pushed')]
           IN  /\ pc' = "idle"
               /\ ~this.accepted =>
                     /\ accounts' = accounts
                     /\ temp_log' = temp_log
                     /\ applied_transactions' = applied_transactions
                     /\ current_transaction' = current_transaction
               /\ this.accepted =>
                     /\ this.trans_id = Accepted(Len(pushed))
                     /\ DOMAIN temp_log' = DOMAIN temp_log \cup {this.trans_id}
                     /\ \A a \in DOMAIN accounts' :
                           accounts'[a] = accounts[a]
                               + (IF a \in DOMAIN this.net THEN this.net[a]
                                  ELSE 0) ]_vars

(* A push rejected at its second transfer, then a push that was accepted  *)
(* and is pending.                                                         *)
C14_Witness ==
    /\ Len(pushed) = 2
    /\ ~pushed[1].accepted /\ pushed[1].unknown_at = 2
    /\ pushed[2].accepted /\ DOMAIN pushed[2].net # {}
    /\ DOMAIN temp_log = {pushed[2].trans_id}

(* C15: the ledger holds exactly the account ids given at construction,   *)
(* whatever was pushed, rejected, rolled back or committed since.         *)
C15_AccountIdsFixed ==
    DOMAIN accounts = IdsOf(input.initial_balances)

(* After a rejected push naming an unknown account, an accepted push and  *)
(* a settle() that rolled back.                                            *)
C15_Witness ==
    /\ Returned /\ call.rolled # {}
    /\ \E i \in DOMAIN pushed : ~pushed[i].accepted

(* C16: the log built for an accepted transaction has exactly one entry   *)
(* per account its transfers reference, and net_change(a) is the amounts  *)
(* a receives minus the amounts a sends (0 for an account not referenced).*)
NamedIds ==
    DOMAIN accounts
    \cup {x.from : x \in input.transfers} \cup {x.to : x \in input.transfers}

C16_LogIsNetOfTransfers ==
    \A i \in DOMAIN pushed :
        (pushed[i].accepted /\ pushed[i].trans_id \in DOMAIN temp_log) =>
            LET log == temp_log[pushed[i].trans_id]
                net == pushed[i].net
            IN  /\ DOMAIN log = DOMAIN net
                /\ \A a \in NamedIds :
                      net_change(log, a)
                          = (IF a \in DOMAIN net THEN net[a] ELSE 0)

(* A pending log of two accounts with an entry that nets to 0 (a transfer *)
(* and its reverse), next to a pending log that moves value.               *)
C16_Witness ==
    /\ \E id \in DOMAIN temp_log :
          /\ Cardinality(DOMAIN temp_log[id]) = 2
          /\ \E a \in DOMAIN temp_log[id] : temp_log[id][a] = 0
    /\ \E id \in DOMAIN temp_log :
          \E a \in DOMAIN temp_log[id] : temp_log[id][a] < 0

(* C17: the score settle() computes for a pending log is the number of    *)
(* accounts a of the log with balance(a) - (the log's delta of a) < 0.    *)
ScoreById(accs, log) ==
    Cardinality({a \in DOMAIN log : accs[a] - log[a] < 0})

C17_ScoreLooksUpById ==
    (pc = "settle" /\ get_invalid_accounts(accounts) # 0) =>
        \A id \in DOMAIN temp_log :
            get_invalid_accounts_log(accounts, temp_log[id])
                = ScoreById(accounts, temp_log[id])

(* C18: each settle() iteration that finds a negative balance rolls back  *)
(* the pending log with the least computed score, the smallest id among   *)
(* equals; that log alone leaves pending, the others stay as they are,    *)
(* and only the balances of its accounts change, by its deltas.           *)
C18_RollsBackLeastScoreThenLeastId ==
    [][ (pc = "settle" /\ pc' = "settle") =>
           \E r \in DOMAIN temp_log :
              /\ \A id \in DOMAIN temp_log \ {r} :
                    LET sr == get_invalid_accounts_log(accounts, temp_log[r])
                        si == get_invalid_accounts_log(accounts, temp_log[id])
                    IN  sr < si \/ (sr = si /\ r < id)
              /\ DOMAIN temp_log' = DOMAIN temp_log \ {r}
              /\ \A id \in DOMAIN temp_log' : temp_log'[id] = temp_log[id]
              /\ call'.rolled = call.rolled \cup {r}
              /\ \A a \in DOMAIN accounts :
                    accounts'[a] = accounts[a] - net_change(temp_log[r], a) ]_vars

(* settle() rolled back transaction 1 while transaction 0 stayed pending: *)
(* the later log had the strictly smaller score.                          *)
C18_Witness ==
    /\ pc = "settle"
    /\ call.rolled = {1}
    /\ 0 \in DOMAIN temp_log

(* C19: rollback undoes apply_transaction: applying a pending log and     *)
(* rolling it back (or the reverse) leaves every balance as it was;       *)
(* rolling back one log changes the balances of that log's accounts only; *)
(* rolling back all the pending logs, in whichever order, gives the       *)
(* balances of the moment pending was last empty, which are the initial   *)
(* balances plus the transactions applied by then (applied changes only   *)
(* in the step that empties pending); Scenario B ends with applied = []   *)
(* and balances {1:5, 2:5}.                                                *)
Orders(S) ==
    {o \in [1..Cardinality(S) -> S] :
        \A i, j \in DOMAIN o : i # j => o[i] # o[j]}

RECURSIVE RollbackAll(_, _, _)
RollbackAll(accs, logs, order) ==
    IF order = <<>> THEN accs
    ELSE RollbackAll(rollback(accs, logs[Head(order)]), logs, Tail(order))

ScenarioB ==
    /\ input.initial_balances = <<account_balance(1, 5), account_balance(2, 5)>>
    /\ pushed = <<PushRecord(0, <<transfer(1, 2, 10)>>)>>
    /\ Returned /\ call.P = 1

C19_RollbackInvertsApply ==
    /\ \A id \in DOMAIN temp_log :
          /\ rollback(apply_transaction(accounts, temp_log[id]), temp_log[id])
                = accounts
          /\ apply_transaction(rollback(accounts, temp_log[id]), temp_log[id])
                = accounts
          /\ \A a \in DOMAIN accounts :
                rollback(accounts, temp_log[id])[a] =
                    IF a \in DOMAIN temp_log[id]
                    THEN accounts[a] - temp_log[id][a] ELSE accounts[a]
    /\ \A order \in Orders(DOMAIN temp_log) :
          RollbackAll(accounts, temp_log, order) = last_empty_balances
    /\ (call.active /\ call.rolled = call.pending) =>
          accounts = last_empty_balances
    /\ ScenarioB =>
          /\ applied_transactions = {}
          /\ accounts = (1 :> 5) @@ (2 :> 5)
          /\ call.rolled = {0}

(* Scenario B has run: the only pending transaction was rolled back. *)
C19_Witness ==
    /\ ScenarioB
    /\ call.rolled = {0}
    /\ call.balances = (1 :> -5) @@ (2 :> 15)

(* C20: a settle() called with no negative balance rolls back nothing: it *)
(* returns, the balances are the ones at the call, and applied gains      *)
(* every id pending at the call; Scenario A ends with applied = [0] and   *)
(* balances {1:7, 2:8}.                                                    *)
ScenarioA ==
    /\ input.initial_balances = <<account_balance(1, 10), account_balance(2, 5)>>
    /\ pushed = <<PushRecord(0, <<transfer(1, 2, 3)>>)>>
    /\ Returned /\ call.P = 1

C20_ValidLedgerCommitsAll ==
    /\ (call.active /\ \A a \in DOMAIN call.balances : call.balances[a] >= 0) =>
          /\ ~Crashed
          /\ call.rolled = {}
          /\ accounts = call.balances
          /\ Returned =>
                /\ applied_transactions = call.applied \cup call.pending
                /\ temp_log = EmptyMap
    /\ ScenarioA =>
          /\ applied_transactions = {0}
          /\ accounts = (1 :> 7) @@ (2 :> 8)

(* Scenario A has run: the pending transaction 0 was committed. *)
C20_Witness ==
    /\ ScenarioA
    /\ call.applied = {}
    /\ 0 \in applied_transactions

(* C21: an accepted push_transaction adds to every account's balance that *)
(* account's net delta in the transaction (nothing for an account the     *)
(* transaction does not touch), leaves applied as it was, and adds one    *)
(* log to pending, under the id current_transaction held before the call, *)
(* which is larger than every id already pending; the earlier pending     *)
(* logs stay as they were and current_transaction grows by one.           *)
C21_AcceptedPushAppliesAndAppends ==
    [][ (Len(pushed') > Len(pushed) /\ pushed'[Len(pushed')].accepted) =>
           LET net == pushed'[Len(pushed')].net
           IN  /\ DOMAIN accounts' = DOMAIN accounts
               /\ \A a \in DOMAIN accounts :
                     accounts'[a] =
                        IF a \in DOMAIN net THEN accounts[a] + net[a]
                        ELSE accounts[a]
               /\ applied_transactions' = applied_transactions
               /\ current_transaction \notin DOMAIN temp_log
               /\ DOMAIN temp_log' = DOMAIN temp_log \cup {current_transaction}
               /\ \A id \in DOMAIN temp_log :
                     id < current_transaction /\ temp_log'[id] = temp_log[id]
               /\ DOMAIN temp_log'[current_transaction] = DOMAIN net
               /\ \A a \in DOMAIN net :
                     temp_log'[current_transaction][a] = net[a]
               /\ current_transaction' = current_transaction + 1 ]_vars

(* Two accepted pushes are pending and the second drove a balance that    *)
(* was not negative before it below zero.                                  *)
C21_Witness ==
    /\ pc = "idle" /\ ~call.active
    /\ Len(pushed) = 2
    /\ DOMAIN temp_log = {0, 1}
    /\ \E a \in DOMAIN accounts :
          accounts[a] < 0 /\ accounts[a] - net_change(temp_log[1], a) >= 0

(* C22: in every state, between calls and between the iterations of      *)
(* settle(), each balance is the balance of the moment pending was last   *)
(* empty plus the account's net deltas summed over the logs now pending.  *)
RECURSIVE PendingNet(_, _)
PendingNet(logs, a) ==
    IF DOMAIN logs = {} THEN 0
    ELSE LET id == CHOOSE k \in DOMAIN logs : TRUE
         IN  net_change(logs[id], a)
                + PendingNet([k \in DOMAIN logs \ {id} |-> logs[k]], a)

C22_BalanceIsBasePlusPending ==
    /\ DOMAIN accounts = DOMAIN last_empty_balances
    /\ \A a \in DOMAIN accounts :
          accounts[a] = last_empty_balances[a] + PendingNet(temp_log, a)

(* settle() has rolled back one of two pending logs and the other, which  *)
(* moves value, is still pending.                                          *)
C22_Witness ==
    /\ pc = "settle"
    /\ Cardinality(call.rolled) = 1
    /\ \E id \in DOMAIN temp_log :
          \E a \in DOMAIN temp_log[id] : temp_log[id][a] # 0

(* C23: the pending ids are the ids of distinct accepted pushes, each     *)
(* below current_transaction and none of them applied; a transaction      *)
(* applied before a settle() call is still applied during and after that  *)
(* call and is not among the ones the call rolls back.                    *)
C23_PendingIdsFreshAndAppliedKept ==
    /\ \A id \in DOMAIN temp_log :
          /\ id < current_transaction
          /\ id \notin applied_transactions
          /\ Cardinality({n \in DOMAIN pushed :
                 pushed[n].accepted /\ pushed[n].trans_id = id}) = 1
    /\ Cardinality(DOMAIN temp_log) + Cardinality(applied_transactions)
          <= Accepted(Len(pushed))
    /\ \A id \in applied_transactions : id < current_transaction
    /\ call.active =>
          /\ call.applied \subseteq applied_transactions
          /\ call.rolled \cap applied_transactions = {}
          /\ call.rolled \cap DOMAIN temp_log = {}

(* A second settle() rolled back transaction 1 while transaction 0,       *)
(* committed by the first settle(), stayed applied.                        *)
C23_Witness ==
    /\ Returned
    /\ call.applied = {0}
    /\ call.rolled = {1}
    /\ applied_transactions = {0}

====
